---- MODULE Spec2Model ----
(***************************************************************************)
(* Model of gunrock::util::io::ScatterTile (scatter_tile.cuh).             *)
(*                                                                         *)
(* Every lane (thread) of a tile calls one of the Scatter overloads on its *)
(* own register arrays data / scatter_offsets / valid_flags and on the     *)
(* shared destination buffer dest.  Scatter picks one of the four Iterate  *)
(* variants; the variant then walks the (LOAD, VEC) positions of the lane. *)
(* One step of a lane is one instantiation Iterate<LOAD, VEC>::Invoke: its *)
(* guard, the in-place Transform and the store.  The lanes' steps          *)
(* interleave freely; the only shared object is dest.                      *)
(***************************************************************************)
EXTENDS Integers, Sequences, FiniteSets, TLC

\* ------------------------------------------------------------------------
\* Tile shape (template parameters of ScatterTile) and model bounds
\* ------------------------------------------------------------------------
\* template argument: two loads per tile
LOG_LOADS_PER_TILE == 1

\* template argument: two items per vector load
LOG_LOAD_VEC_SIZE == 1

\* number of lanes that run the call
ACTIVE_THREADS == 2

\* cells of dest beyond the tile capacity
DestPad == 2

\* number of consecutive identical Scatter calls issued by the kernel
MaxCalls == 2

LOADS_PER_TILE == 2 ^ LOG_LOADS_PER_TILE

LOAD_VEC_SIZE == 2 ^ LOG_LOAD_VEC_SIZE

LOG_ELEMENTS_PER_THREAD == LOG_LOADS_PER_TILE + LOG_LOAD_VEC_SIZE

ELEMENTS_PER_THREAD == 2 ^ LOG_ELEMENTS_PER_THREAD

TILE_SIZE == ACTIVE_THREADS * ELEMENTS_PER_THREAD

Lanes == 0 .. (ACTIVE_THREADS - 1)

Loads == 0 .. (LOADS_PER_TILE - 1)

Vecs == 0 .. (LOAD_VEC_SIZE - 1)

DestSize == TILE_SIZE + DestPad

Cells == 0 .. (DestSize - 1)

\* threadIdx.x << LOG_LOAD_VEC_SIZE
ShiftLeft(x, n) == x * (2 ^ n)

TileRank_noVecScale(lane, LOAD, VEC) ==
    ShiftLeft(lane, LOG_LOAD_VEC_SIZE) + (LOAD * ACTIVE_THREADS) + VEC

\* int tile_rank = (threadIdx.x << LOG_LOAD_VEC_SIZE)
\*               + (LOAD * ACTIVE_THREADS * LOAD_VEC_SIZE) + VEC;
TileRank(lane, LOAD, VEC) ==
    ShiftLeft(lane, LOG_LOAD_VEC_SIZE) + (LOAD * ACTIVE_THREADS * LOAD_VEC_SIZE) + VEC

\* ------------------------------------------------------------------------
\* Inputs of a call: register arrays of every lane, indexed [lane][LOAD][VEC]
\* ------------------------------------------------------------------------
TileArray(F(_, _, _)) ==
    [lane \in Lanes |-> [LOAD \in Loads |-> [VEC \in Vecs |-> F(lane, LOAD, VEC)]]]

OffIdentity(lane, LOAD, VEC) == TileRank(lane, LOAD, VEC)

OffReverse(lane, LOAD, VEC) == (TILE_SIZE - 1) - TileRank(lane, LOAD, VEC)

\* the first element of lane 1 goes to the cell of the first element of lane 0
\* (one collision across lanes)
OffCrossLane(lane, LOAD, VEC) ==
    IF lane = 1 /\ LOAD = 0 /\ VEC = 0 THEN TileRank(0, 0, 0)
    ELSE TileRank(lane, LOAD, VEC)

\* every element of a lane goes to the lane's cell (collision inside a lane)
OffSameLane(lane, LOAD, VEC) == lane

OffsetPatterns ==
    { TileArray(OffIdentity), TileArray(OffReverse),
      TileArray(OffCrossLane), TileArray(OffSameLane) }

FlagAll(lane, LOAD, VEC) == TRUE

FlagNone(lane, LOAD, VEC) == FALSE

FlagDiagonal(lane, LOAD, VEC) == (LOAD + VEC) % 2 = 1

FlagChecker(lane, LOAD, VEC) == (lane + LOAD + VEC) % 2 = 0

FlagPatterns ==
    { TileArray(FlagAll), TileArray(FlagNone), TileArray(FlagDiagonal),
      TileArray(FlagChecker) }

\* distinct non-zero values, one per element
ValueOf(lane, LOAD, VEC) == TileRank(lane, LOAD, VEC) + 1

Transforms == {"Nop", "Double", "SetLowBit"}

VARIABLES
    dest,               \* T *dest: the shared destination buffer
    data,               \* T data[][LOAD_VEC_SIZE] of every lane
    scatter_offsets,    \* SizeT scatter_offsets[][LOAD_VEC_SIZE] of every lane
    valid_flags,        \* Flag valid_flags[][LOAD_VEC_SIZE] of every lane
    partial_tile_size,  \* const SizeT &partial_tile_size
    useFlags,           \* TRUE for the overloads that take flags
    transform,          \* the Transform template argument
    pc,                 \* per lane: idle / at Iterate<LOAD, VEC> / done
    variant,            \* per lane: the Invoke overload Scatter selected
    calls,              \* number of the current call, 1 .. MaxCalls
    dest0,              \* dest as it was when the current call began
    data0,              \* data as it was when the current call began
    nstores,            \* stores issued in the current call, per element
    visited             \* per lane: the (LOAD, VEC) instantiations run so far

vars == << dest, data, scatter_offsets, valid_flags, partial_tile_size, useFlags,
           transform, pc, variant, calls, dest0, data0, nstores, visited >>

inputs == << scatter_offsets, valid_flags, partial_tile_size, useFlags, transform >>

\* ------------------------------------------------------------------------
\* External leaves
\* ------------------------------------------------------------------------
\* ModifiedStore<CACHE_MODIFIER>::St(val, ptr): one plain store
St(d, val, ptr) == [d EXCEPT ![ptr] = val]

\* Operators<T>::NopTransform
NopTransform(x) == x

\* caller transforms: "double the value", and an idempotent one
Double(x) == 2 * x

SetLowBit(x) == x + 1 - (x % 2)

Transform(x) ==
    CASE transform = "Nop" -> NopTransform(x)
      [] transform = "Double" -> Double(x)
      [] transform = "SetLowBit" -> SetLowBit(x)

\* ------------------------------------------------------------------------
\* Iterate<LOAD, VEC>: template resolution
\* ------------------------------------------------------------------------
AtItem(LOAD, VEC) == [at |-> "iter", LOAD |-> LOAD, VEC |-> VEC]

\* struct Iterate<LOADS_PER_TILE, 0, dummy>: every Invoke is empty
Terminate == [at |-> "done", LOAD |-> LOADS_PER_TILE, VEC |-> 0]

IsTerminate_early(LOAD, VEC) == LOAD = LOADS_PER_TILE - 1 /\ VEC = 0

IsTerminate(LOAD, VEC) == LOAD = LOADS_PER_TILE /\ VEC = 0

IsNextLoad(LOAD, VEC) == VEC = LOAD_VEC_SIZE

RECURSIVE Iterate(_, _)

\* struct Iterate<LOAD, LOAD_VEC_SIZE, dummy>: Iterate<LOAD + 1, 0>::Invoke
NextLoad(LOAD) == Iterate(LOAD + 1, 0)

Iterate(LOAD, VEC) ==
    IF IsTerminate(LOAD, VEC) THEN Terminate
    ELSE IF IsNextLoad(LOAD, VEC) THEN NextLoad(LOAD)
    ELSE AtItem(LOAD, VEC)

NextItem_loadFirst(LOAD, VEC) == Iterate(LOAD + 1, VEC)

\* the tail call of every Invoke: Iterate<LOAD, VEC + 1>::Invoke
NextItem(LOAD, VEC) == Iterate(LOAD, VEC + 1)

\* ------------------------------------------------------------------------
\* The body of Iterate<LOAD, VEC>::Invoke
\* ------------------------------------------------------------------------
FlagsGuard_ignored(lane, LOAD, VEC) == TRUE

\* if (valid_flags[LOAD][VEC])
FlagsGuard(lane, LOAD, VEC) == valid_flags[lane][LOAD][VEC]

PartialGuard_inclusive(lane, LOAD, VEC) ==
    TileRank(lane, LOAD, VEC) <= partial_tile_size

\* if (tile_rank < partial_tile_size)
PartialGuard(lane, LOAD, VEC) == TileRank(lane, LOAD, VEC) < partial_tile_size

\* if (valid_flags[LOAD][VEC] && (tile_rank < partial_tile_size))
FlagsPartialGuard(lane, LOAD, VEC) ==
    valid_flags[lane][LOAD][VEC] /\ (TileRank(lane, LOAD, VEC) < partial_tile_size)

TransformItem_twice(lane, LOAD, VEC) ==
    [data EXCEPT ![lane][LOAD][VEC] = Transform(Transform(@))]

\* Transform(data[LOAD][VEC]);
TransformItem(lane, LOAD, VEC) ==
    [data EXCEPT ![lane][LOAD][VEC] = Transform(@)]

StoreAddr_vec0(lane, LOAD, VEC) == scatter_offsets[lane][LOAD][0]

\* dest + scatter_offsets[LOAD][VEC]
StoreAddr(lane, LOAD, VEC) == scatter_offsets[lane][LOAD][VEC]

StoreItem_stale(lane, LOAD, VEC, d) ==
    St(dest, data[lane][LOAD][VEC], StoreAddr(lane, LOAD, VEC))

\* ModifiedStore<CACHE_MODIFIER>::St(data[LOAD][VEC], dest + scatter_offsets[LOAD][VEC]);
\* d is the lane's data after Transform
StoreItem(lane, LOAD, VEC, d) ==
    St(dest, d[lane][LOAD][VEC], StoreAddr(lane, LOAD, VEC))

ItemData_always(lane, LOAD, VEC, pass) == TransformItem(lane, LOAD, VEC)

\* Transform runs inside the guard only
ItemData(lane, LOAD, VEC, pass) ==
    IF pass THEN TransformItem(lane, LOAD, VEC) ELSE data

\* guard; Transform; St; then the tail call
Item(lane, LOAD, VEC, pass) ==
    /\ data' = ItemData(lane, LOAD, VEC, pass)
    /\ dest' = IF pass THEN StoreItem(lane, LOAD, VEC, data') ELSE dest
    /\ nstores' = IF pass THEN [nstores EXCEPT ![lane][LOAD][VEC] = @ + 1] ELSE nstores
    /\ visited' = [visited EXCEPT ![lane] = Append(@, << LOAD, VEC >>)]
    /\ pc' = [pc EXCEPT ![lane] = NextItem(LOAD, VEC)]
    /\ UNCHANGED << inputs, variant, calls, dest0, data0 >>

InvokeUnguarded(lane) ==
    /\ pc[lane].at = "iter"
    /\ variant[lane] = "unguarded"
    /\ Item(lane, pc[lane].LOAD, pc[lane].VEC, TRUE)

InvokeFlags(lane) ==
    /\ pc[lane].at = "iter"
    /\ variant[lane] = "flags"
    /\ Item(lane, pc[lane].LOAD, pc[lane].VEC,
            FlagsGuard(lane, pc[lane].LOAD, pc[lane].VEC))

InvokePartial(lane) ==
    /\ pc[lane].at = "iter"
    /\ variant[lane] = "partial"
    /\ Item(lane, pc[lane].LOAD, pc[lane].VEC,
            PartialGuard(lane, pc[lane].LOAD, pc[lane].VEC))

InvokeFlagsPartial(lane) ==
    /\ pc[lane].at = "iter"
    /\ variant[lane] = "flags_partial"
    /\ Item(lane, pc[lane].LOAD, pc[lane].VEC,
            FlagsPartialGuard(lane, pc[lane].LOAD, pc[lane].VEC))

\* ------------------------------------------------------------------------
\* Interface
\* ------------------------------------------------------------------------
GuardedIO_inclusive == partial_tile_size <= TILE_SIZE

\* if (partial_tile_size < TILE_SIZE)
GuardedIO == partial_tile_size < TILE_SIZE

\* Scatter<T, Transform, SizeT>(dest, data, scatter_offsets, partial_tile_size)
Scatter(lane) ==
    /\ pc[lane].at = "idle"
    /\ ~useFlags
    /\ variant' = [variant EXCEPT ![lane] = IF GuardedIO THEN "partial" ELSE "unguarded"]
    /\ pc' = [pc EXCEPT ![lane] = Iterate(0, 0)]
    /\ UNCHANGED << dest, data, inputs, calls, dest0, data0, nstores, visited >>

\* Scatter<T, SizeT>: Scatter<T, Operators<T>::NopTransform>(...)
ScatterNop(lane) ==
    /\ transform = "Nop"
    /\ Scatter(lane)

\* Scatter<T, Transform, Flag, SizeT>(dest, data, flags, scatter_offsets, partial_tile_size)
ScatterFlags(lane) ==
    /\ pc[lane].at = "idle"
    /\ useFlags
    /\ variant' = [variant EXCEPT ![lane] = IF GuardedIO THEN "flags_partial" ELSE "flags"]
    /\ pc' = [pc EXCEPT ![lane] = Iterate(0, 0)]
    /\ UNCHANGED << dest, data, inputs, calls, dest0, data0, nstores, visited >>

\* Scatter<T, Flag, SizeT>: Scatter<T, Operators<T>::NopTransform>(...)
ScatterFlagsNop(lane) ==
    /\ transform = "Nop"
    /\ ScatterFlags(lane)

AllDone == \A lane \in Lanes : pc[lane].at = "done"

Idle == [at |-> "idle", LOAD |-> 0, VEC |-> 0]

\* the calling kernel repeats the identical call once every lane has returned
Repeat ==
    /\ AllDone
    /\ calls < MaxCalls
    /\ calls' = calls + 1
    /\ dest0' = dest
    /\ data0' = data
    /\ pc' = [lane \in Lanes |-> Idle]
    /\ variant' = [lane \in Lanes |-> "none"]
    /\ nstores' = TileArray(LAMBDA lane, LOAD, VEC : 0)
    /\ visited' = [lane \in Lanes |-> << >>]
    /\ UNCHANGED << dest, data, inputs >>

Init ==
    /\ scatter_offsets \in OffsetPatterns
    /\ useFlags \in BOOLEAN
    /\ valid_flags \in (IF useFlags THEN FlagPatterns ELSE {TileArray(FlagAll)})
    /\ partial_tile_size \in 0 .. TILE_SIZE
    /\ transform \in Transforms
    /\ data = TileArray(ValueOf)
    /\ data0 = data
    /\ dest = [c \in Cells |-> 0]
    /\ dest0 = dest
    /\ pc = [lane \in Lanes |-> Idle]
    /\ variant = [lane \in Lanes |-> "none"]
    /\ calls = 1
    /\ nstores = TileArray(LAMBDA lane, LOAD, VEC : 0)
    /\ visited = [lane \in Lanes |-> << >>]

Step(lane) ==
    \/ Scatter(lane)
    \/ ScatterNop(lane)
    \/ ScatterFlags(lane)
    \/ ScatterFlagsNop(lane)
    \/ InvokeUnguarded(lane)
    \/ InvokeFlags(lane)
    \/ InvokePartial(lane)
    \/ InvokeFlagsPartial(lane)

Next ==
    \/ \E lane \in Lanes : Step(lane)
    \/ Repeat

Spec == Init /\ [][Next]_vars

\* ------------------------------------------------------------------------
\* Vocabulary of the properties
\* ------------------------------------------------------------------------
Elems == Lanes \X Loads \X Vecs

RankOf(e) == (e[1] * LOAD_VEC_SIZE) + (e[2] * ACTIVE_THREADS * LOAD_VEC_SIZE) + e[3]

OffOf(e) == scatter_offsets[e[1]][e[2]][e[3]]

FlagOf(e) == valid_flags[e[1]][e[2]][e[3]]

StoresOf(e) == nstores[e[1]][e[2]][e[3]]

DataOf(e) == data[e[1]][e[2]][e[3]]

Data0Of(e) == data0[e[1]][e[2]][e[3]]

\* the decision table: flag, if supplied, AND tile_rank < partial_tile_size
ShouldWrite(e) == (useFlags => FlagOf(e)) /\ RankOf(e) < partial_tile_size

CollisionFree == \A e1, e2 \in Elems : e1 # e2 => OffOf(e1) # OffOf(e2)

\* the elements that pass their guard and address cell c
Writers(c) == { e \in Elems : ShouldWrite(e) /\ OffOf(e) = c }

\* position of (LOAD, VEC) in the order LOAD = 0.., VEC fastest
OrderIndex(e) == (e[2] * LOAD_VEC_SIZE) + e[3]

LaneOrder == [i \in 1 .. ELEMENTS_PER_THREAD |->
                << (i - 1) \div LOAD_VEC_SIZE, (i - 1) % LOAD_VEC_SIZE >>]

RECURSIVE LaneStoresUpTo(_, _)

\* stores issued by a lane for the first i elements of its order
LaneStoresUpTo(lane, i) ==
    IF i = 0 THEN 0
    ELSE nstores[lane][LaneOrder[i][1]][LaneOrder[i][2]] + LaneStoresUpTo(lane, i - 1)

LaneStores(lane) == LaneStoresUpTo(lane, ELEMENTS_PER_THREAD)

RECURSIVE StoresUpTo(_)

\* stores issued by lanes 0 .. n-1
StoresUpTo(n) == IF n = 0 THEN 0 ELSE LaneStores(n - 1) + StoresUpTo(n - 1)

TotalStores == StoresUpTo(ACTIVE_THREADS)

LaneElems(lane) == { e \in Elems : e[1] = lane }

\* ------------------------------------------------------------------------
\* C1: a call without flags and with partial_tile_size = k < TILE_SIZE, on
\* collision-free offsets: once every lane has finished, an element has been
\* stored to dest[offsets] iff its tile rank is < k, and every cell
\* addressed only by elements of rank >= k holds its pre-call content.
\* ------------------------------------------------------------------------
C1_PartialTile ==
    (AllDone /\ ~useFlags /\ partial_tile_size < TILE_SIZE /\ CollisionFree) =>
        /\ \A e \in Elems :
              /\ (StoresOf(e) >= 1) <=> (RankOf(e) < partial_tile_size)
              /\ RankOf(e) < partial_tile_size =>
                    dest[OffOf(e)] = Transform(Data0Of(e))
        /\ \A c \in Cells :
              (\A e \in Elems : OffOf(e) = c => RankOf(e) >= partial_tile_size) =>
                    dest[c] = dest0[c]

C1_Witness ==
    /\ AllDone /\ ~useFlags /\ CollisionFree /\ calls = 1
    /\ partial_tile_size = TILE_SIZE - 3
    /\ \E e \in Elems : StoresOf(e) = 1 /\ dest[OffOf(e)] = Transform(Data0Of(e))
    /\ \E e \in Elems : StoresOf(e) = 0 /\ dest[OffOf(e)] = 0

\* ------------------------------------------------------------------------
\* C2: a flag-taking call stores an element iff its flag is true and, when
\* partial_tile_size < TILE_SIZE, its tile rank is < partial_tile_size; on a
\* full tile the flag alone decides.
\* ------------------------------------------------------------------------
C2_Flags ==
    (AllDone /\ useFlags) =>
        \A e \in Elems :
            (StoresOf(e) >= 1) <=>
                (FlagOf(e) /\ (partial_tile_size < TILE_SIZE =>
                                   RankOf(e) < partial_tile_size))

C2_Witness ==
    /\ AllDone /\ useFlags /\ partial_tile_size < TILE_SIZE
    /\ \E e \in Elems : FlagOf(e) /\ StoresOf(e) = 1
    /\ \E e \in Elems : FlagOf(e) /\ RankOf(e) >= partial_tile_size /\ StoresOf(e) = 0
    /\ \E e \in Elems : ~FlagOf(e) /\ RankOf(e) < partial_tile_size /\ StoresOf(e) = 0

\* ------------------------------------------------------------------------
\* C3: full tile, no flags, identity transform, collision-free offsets:
\* after all lanes have finished, in every interleaving,
\* dest[offsets[load][vec]] is the original data[load][vec] of every element.
\* ------------------------------------------------------------------------
C3_FullTile ==
    (AllDone /\ ~useFlags /\ transform = "Nop" /\ partial_tile_size = TILE_SIZE
        /\ CollisionFree) =>
        \A e \in Elems : dest[OffOf(e)] = Data0Of(e)

C3_Witness ==
    /\ AllDone /\ ~useFlags /\ transform = "Nop" /\ partial_tile_size = TILE_SIZE
    /\ CollisionFree /\ calls = 1
    /\ scatter_offsets = TileArray(OffReverse)
    /\ \A e \in Elems : dest[OffOf(e)] = RankOf(e) + 1

\* ------------------------------------------------------------------------
\* C4: the transform is applied exactly once, in place and before the store,
\* to each element that passes its guard: every stored element's data entry
\* holds Transform(original), and its destination cell holds the transformed
\* value of an element stored there (its own when nothing else is).
\* ------------------------------------------------------------------------
C4_Transform ==
    AllDone =>
        \A e \in Elems :
            StoresOf(e) >= 1 =>
                /\ DataOf(e) = Transform(Data0Of(e))
                /\ \E w \in Elems :
                      /\ StoresOf(w) >= 1 /\ OffOf(w) = OffOf(e)
                      /\ dest[OffOf(e)] = Transform(Data0Of(w))
                /\ (\A w \in Elems : (StoresOf(w) >= 1 /\ OffOf(w) = OffOf(e)) => w = e)
                      => dest[OffOf(e)] = Transform(Data0Of(e))

C4_Witness ==
    /\ AllDone /\ transform = "Double" /\ calls = 1
    /\ \E e \in Elems :
          /\ StoresOf(e) = 1
          /\ DataOf(e) = 2 * (RankOf(e) + 1)
          /\ dest[OffOf(e)] = 2 * (RankOf(e) + 1)
    /\ \E e \in Elems : StoresOf(e) = 0 /\ DataOf(e) = RankOf(e) + 1

\* ------------------------------------------------------------------------
\* C5: two different lanes store differing values v1, v2 to one cell in one
\* call: no lane is ever stuck before it returns, and once all have returned
\* the cell holds v1 or v2, never its pre-call content or another value.
\* ------------------------------------------------------------------------
C5_Collision ==
    /\ \A lane \in Lanes : pc[lane].at # "done" => ENABLED Step(lane)
    /\ AllDone =>
          \A e1, e2 \in Elems :
              (/\ e1[1] # e2[1]
               /\ OffOf(e1) = OffOf(e2)
               /\ Writers(OffOf(e1)) = {e1, e2}
               /\ Transform(Data0Of(e1)) # Transform(Data0Of(e2))) =>
                    dest[OffOf(e1)] \in {Transform(Data0Of(e1)), Transform(Data0Of(e2))}

\* both outcomes happen: the first call left lane 0's value in cell 0, the
\* identical second call left lane 1's value there
C5_Witness ==
    /\ AllDone /\ calls = 2 /\ transform = "Nop" /\ ~useFlags
    /\ partial_tile_size = TILE_SIZE
    /\ scatter_offsets = TileArray(OffCrossLane)
    /\ ACTIVE_THREADS >= 2
    /\ Writers(0) = { << 0, 0, 0 >>, << 1, 0, 0 >> }
    /\ dest0[0] = data0[0][0][0]
    /\ dest[0] = data0[1][0][0]
    /\ data0[0][0][0] # data0[1][0][0]

\* ------------------------------------------------------------------------
\* C6 as stated: repeating an identical call (same arrays, same transform)
\* with collision-free offsets leaves dest as the first call left it.
\* ------------------------------------------------------------------------
C6_Idempotence_AsStated ==
    (AllDone /\ calls >= 2 /\ CollisionFree) => dest = dest0

TransformIdempotent ==
    \A x \in 0 .. (2 * TILE_SIZE) : Transform(Transform(x)) = Transform(x)

\* ------------------------------------------------------------------------
\* C6 amended: repeating an identical call with collision-free offsets leaves
\* dest as the first call left it, provided the transform is the identity
\* (the call shapes without a transform) or otherwise idempotent.
\* ------------------------------------------------------------------------
C6_Idempotence ==
    (AllDone /\ calls >= 2 /\ CollisionFree /\ TransformIdempotent) => dest = dest0

C6_Witness ==
    /\ AllDone /\ calls = 2 /\ CollisionFree /\ transform = "SetLowBit"
    /\ \E e \in Elems : StoresOf(e) = 1 /\ dest[OffOf(e)] = DataOf(e) /\ DataOf(e) # RankOf(e) + 1
    /\ dest = dest0

\* ------------------------------------------------------------------------
\* C7: Scatter runs a boundary-checking variant exactly when
\* partial_tile_size < TILE_SIZE, and for every partial_tile_size in
\* 0 .. TILE_SIZE the resulting data and dest are those of the decision
\* table (flag, if supplied, AND tile_rank < partial_tile_size).
\* ------------------------------------------------------------------------
C7_Dispatch ==
    /\ \A lane \in Lanes :
          pc[lane].at # "idle" =>
              /\ (variant[lane] \in {"partial", "flags_partial"})
                    <=> (partial_tile_size < TILE_SIZE)
              /\ (variant[lane] \in {"unguarded", "flags"})
                    <=> ~(partial_tile_size < TILE_SIZE)
              /\ (variant[lane] \in {"flags", "flags_partial"}) <=> useFlags
    /\ AllDone =>
          /\ \A e \in Elems :
                DataOf(e) = IF ShouldWrite(e) THEN Transform(Data0Of(e)) ELSE Data0Of(e)
          /\ \A c \in Cells :
                IF Writers(c) = {} THEN dest[c] = dest0[c]
                ELSE \E e \in Writers(c) : dest[c] = Transform(Data0Of(e))

C7_Witness ==
    /\ AllDone /\ calls = 1 /\ partial_tile_size = TILE_SIZE /\ useFlags
    /\ \A lane \in Lanes : variant[lane] = "flags"
    /\ \E c \in Cells : Writers(c) # {} /\ dest[c] # dest0[c]
    /\ \E e \in Elems : ~ShouldWrite(e) /\ dest[OffOf(e)] = dest0[OffOf(e)]

\* ------------------------------------------------------------------------
\* C8: frame.  A call changes only the cells addressed by guard-passing
\* elements and the data entries of those elements; data of an element whose
\* guard is false keeps its pre-call value; offsets and flags are never
\* modified; a lane issues at most LOADS_PER_TILE * LOAD_VEC_SIZE stores,
\* exactly one per guard-passing element.
\* ------------------------------------------------------------------------
C8_FrameInv ==
    /\ \A e \in Elems :
          /\ ~ShouldWrite(e) => (DataOf(e) = Data0Of(e) /\ StoresOf(e) = 0)
          /\ StoresOf(e) <= 1
          /\ (AllDone /\ ShouldWrite(e)) => StoresOf(e) = 1
    /\ \A c \in Cells :
          dest[c] # dest0[c] => \E e \in Elems : OffOf(e) = c /\ ShouldWrite(e)
    /\ \A lane \in Lanes : LaneStores(lane) <= LOADS_PER_TILE * LOAD_VEC_SIZE

C8_Frame ==
    /\ []C8_FrameInv
    /\ [][scatter_offsets' = scatter_offsets /\ valid_flags' = valid_flags]_vars

C8_Witness ==
    /\ AllDone /\ transform = "Double" /\ useFlags /\ partial_tile_size = TILE_SIZE - 1
    /\ \E e \in Elems : ~ShouldWrite(e) /\ FlagOf(e) /\ DataOf(e) = Data0Of(e)
    /\ \E e \in Elems : ShouldWrite(e) /\ StoresOf(e) = 1 /\ DataOf(e) # Data0Of(e)
    /\ \E c \in Cells : Writers(c) = {} /\ dest[c] = dest0[c]

\* ------------------------------------------------------------------------
\* C9: tile_rank is a bijection from (lane, load, vec) onto 0 .. TILE_SIZE-1
\* with TILE_SIZE = ACTIVE_THREADS * LOADS_PER_TILE * LOAD_VEC_SIZE; hence a
\* call without flags and partial_tile_size = k issues exactly k stores
\* summed over all lanes.
\* ------------------------------------------------------------------------
C9_TileRank ==
    /\ TILE_SIZE = ACTIVE_THREADS * LOADS_PER_TILE * LOAD_VEC_SIZE
    /\ \A e \in Elems : TileRank(e[1], e[2], e[3]) \in 0 .. (TILE_SIZE - 1)
    /\ \A r \in 0 .. (TILE_SIZE - 1) :
          Cardinality({ e \in Elems : TileRank(e[1], e[2], e[3]) = r }) = 1
    /\ (AllDone /\ ~useFlags) => TotalStores = partial_tile_size

C9_Witness ==
    /\ AllDone /\ ~useFlags /\ partial_tile_size = TILE_SIZE - 3
    /\ TotalStores = TILE_SIZE - 3
    /\ \E lane \in Lanes : LaneStores(lane) \notin {0, ELEMENTS_PER_THREAD}

\* ------------------------------------------------------------------------
\* C10: a lane processes its elements in the order load = 0 .. with vec
\* varying fastest, each (load, vec) exactly once before it terminates; so
\* when guard-passing elements of one lane share an offset that no other
\* lane writes, the cell ends with the value of the latest of them.
\* ------------------------------------------------------------------------
C10_Order ==
    \A lane \in Lanes :
        /\ Len(visited[lane]) <= ELEMENTS_PER_THREAD
        /\ visited[lane] = SubSeq(LaneOrder, 1, Len(visited[lane]))
        /\ pc[lane].at = "done" => visited[lane] = LaneOrder
        /\ AllDone =>
              \A e1, e2 \in LaneElems(lane) :
                  (/\ ShouldWrite(e1) /\ ShouldWrite(e2)
                   /\ OffOf(e1) = OffOf(e2)
                   /\ OrderIndex(e1) < OrderIndex(e2)
                   /\ \A w \in Writers(OffOf(e1)) :
                         w[1] = lane /\ OrderIndex(w) <= OrderIndex(e2)) =>
                        dest[OffOf(e1)] = Transform(Data0Of(e2))

C10_Witness ==
    /\ AllDone /\ useFlags /\ valid_flags = TileArray(FlagDiagonal)
    /\ scatter_offsets = TileArray(OffSameLane)
    /\ partial_tile_size = TILE_SIZE /\ transform = "Nop" /\ calls = 1
    /\ \A lane \in Lanes :
          /\ visited[lane] = LaneOrder
          /\ \E e \in LaneElems(lane) :
                /\ ShouldWrite(e) /\ dest[lane] = Data0Of(e)
                /\ \E w \in LaneElems(lane) :
                      ShouldWrite(w) /\ OrderIndex(w) < OrderIndex(e) /\ e[3] < w[3]

====
